---- MODULE Spec2Model ----
(***************************************************************************)
(* State-machine model of the utility bot in src/main.py: the in-memory    *)
(* store (profile directory, feedback log, blocklist), the three           *)
(* ConversationHandler flows (registration, feedback, broadcast), the      *)
(* utility menu, and the handler dispatch order of build_application.      *)
(*                                                                         *)
(* Text is a sequence of one-character strings.  An Optional value is a    *)
(* sequence of length at most one: None is << >> and Some(x) is << x >>.   *)
(* Every chat is a private chat, so a conversation key (chat id, user id)  *)
(* is identified with the user id.  Timestamps (created_at) and the        *)
(* platform username are not modelled.  Replies to the sender              *)
(* (reply_text, edit_message_text, answer) are taken to succeed; only      *)
(* bot.send_message deliveries to other chats may fail.                    *)
(***************************************************************************)
EXTENDS Integers, Sequences, FiniteSets, TLC

\* ------------------------------------------------------------------ bounds

\* Number of user identities known to the platform.
NumUsers == 2

\* Cap on the length of the feedback log (the log itself is unbounded).
MaxFeedback == 2

\* Cap on the number of updates waiting in the queue (the queue itself is
\* unbounded).
MaxQueue == 2

Users == 1..NumUsers

\* The allow-lists the configuration may hold.
AuthChoices == SUBSET {u \in Users : u <= 2}

\* ------------------------------------------------- conversation constants

REGISTER_NAME == 0
REGISTER_AGE == 1
FEEDBACK_TEXT == 3
FEEDBACK_CONFIRM == 4
BROADCAST_TEXT == 5
BROADCAST_CONFIRM == 6
\* ConversationHandler.END: the conversation key is dropped.
END == -1

\* Upper limit of register_age's range test.
MaxAge == 120

\* ------------------------------------------------------------ Optional

None == << >>
Some(x) == << x >>

\* ---------------------------------------------------------------- text

Whitespace == {" "}
Digits == {"0", "1", "2", "3", "4", "5", "6", "7", "8", "9"}

RECURSIVE LStrip(_)
LStrip(s) ==
    IF s # << >> /\ Head(s) \in Whitespace THEN LStrip(Tail(s)) ELSE s

RECURSIVE RStrip(_)
RStrip(s) ==
    IF s # << >> /\ s[Len(s)] \in Whitespace
    THEN RStrip(SubSeq(s, 1, Len(s) - 1))
    ELSE s

\* str.strip(): leading and trailing whitespace removed.
Strip(s) == RStrip(LStrip(s))

DigitVal(c) ==
    CASE c = "0" -> 0 [] c = "1" -> 1 [] c = "2" -> 2 [] c = "3" -> 3
      [] c = "4" -> 4 [] c = "5" -> 5 [] c = "6" -> 6 [] c = "7" -> 7
      [] c = "8" -> 8 [] c = "9" -> 9

\* The part of an integer literal after the optional sign.
IntBody(s) ==
    LET b == Strip(s)
    IN  IF b # << >> /\ Head(b) \in {"+", "-"} THEN Tail(b) ELSE b

\* int(text) does not raise ValueError: optional surrounding whitespace, an
\* optional sign, then digits, with single underscores allowed between digits.
IsInt(s) ==
    LET d == IntBody(s)
    IN  /\ d # << >>
        /\ \A i \in 1..Len(d) : d[i] \in Digits \cup {"_"}
        /\ d[1] # "_"
        /\ d[Len(d)] # "_"
        /\ \A i \in 1..(Len(d) - 1) : ~(d[i] = "_" /\ d[i + 1] = "_")

RECURSIVE NatVal(_)
NatVal(d) ==
    IF d = << >> THEN 0
    ELSE IF d[Len(d)] = "_" THEN NatVal(SubSeq(d, 1, Len(d) - 1))
    ELSE 10 * NatVal(SubSeq(d, 1, Len(d) - 1)) + DigitVal(d[Len(d)])

\* int(text) for a text on which it does not raise.
ParseInt(s) ==
    LET b == Strip(s)
    IN  IF Head(b) = "-" THEN 0 - NatVal(IntBody(s)) ELSE NatVal(IntBody(s))

\* Mutant: the lower limit off by one, letting 0 through.
AgeOutOfRange_zero_ok(age_val) == age_val < 0 \/ age_val > MaxAge

\* register_age's range test failing: age_val <= 0 or age_val > 120.
AgeOutOfRange(age_val) == age_val <= 0 \/ age_val > MaxAge

\* ------------------------------------------------------------ variables

VARIABLES
    profiles,        \* store.profiles: insertion-ordered dict, as a sequence of UserProfile
    feedback,        \* store.feedback: list of FeedbackEntry
    blocked_users,   \* store.blocked_users
    AUTH_USERS,      \* Config.AUTH_USERS, read afresh by every is_authorized call
    register_conv,   \* register_conv's state per conversation key (END: no conversation)
    feedback_conv,   \* feedback_conv's state per conversation key
    broadcast_conv,  \* broadcast_conv's state per conversation key
    user_data,       \* context.user_data per user
    reply,           \* the reply issued by the handler that ran last
    sends,           \* bot.send_message calls of the handler that ran last, in order
    fanout,          \* the broadcast loop of broadcast_decision while it is suspended
    name_input,      \* history: the text a user sent at the name step of the current registration
    update_queue     \* application.update_queue: updates fetched and not yet dispatched

vars ==
    << profiles, feedback, blocked_users, AUTH_USERS, register_conv, feedback_conv,
       broadcast_conv, user_data, reply, sends, fanout, name_input, update_queue >>

\* ---------------------------------------------------------- InMemoryStore

UserProfile(user_id) == [user_id |-> user_id, name |-> None, age |-> None]

FeedbackEntry(user_id, text) == [user_id |-> user_id, text |-> text]

\* user_id in self.profiles
HasProfile(P, user_id) == \E i \in DOMAIN P : P[i].user_id = user_id

\* self.profiles[user_id]
ProfileOf(P, user_id) == P[CHOOSE i \in DOMAIN P : P[i].user_id = user_id]

\* list(store.profiles.keys())
ProfileKeys(P) == [i \in DOMAIN P |-> P[i].user_id]

\* The store after get_or_create_profile(user_id).
get_or_create_profile(P, user_id) ==
    IF HasProfile(P, user_id) THEN P ELSE Append(P, UserProfile(user_id))

update_profile_name(P, user_id, name) ==
    LET Q == get_or_create_profile(P, user_id)
    IN  [i \in DOMAIN Q |->
            IF Q[i].user_id = user_id THEN [Q[i] EXCEPT !.name = Some(name)] ELSE Q[i]]

\* Mutant: the profile is replaced by a fresh one carrying the age.
update_profile_age_fresh(P, user_id, age) ==
    LET Q == get_or_create_profile(P, user_id)
    IN  [i \in DOMAIN Q |->
            IF Q[i].user_id = user_id
            THEN [UserProfile(user_id) EXCEPT !.age = Some(age)]
            ELSE Q[i]]

update_profile_age(P, user_id, age) ==
    LET Q == get_or_create_profile(P, user_id)
    IN  [i \in DOMAIN Q |->
            IF Q[i].user_id = user_id THEN [Q[i] EXCEPT !.age = Some(age)] ELSE Q[i]]

\* Mutant: the entry is put at the front of the log.
add_feedback_front(F, entry) == << entry >> \o F

add_feedback(F, entry) == Append(F, entry)

\* self.feedback[-limit:] with Python's slice rules: a start of -limit below
\* zero counts from the end (clamped at the first entry), a start of zero or
\* more counts from the front (clamped at the length).
get_recent_feedback(F, limit) ==
    LET start == IF 0 - limit < 0
                 THEN (IF Len(F) - limit < 0 THEN 0 ELSE Len(F) - limit)
                 ELSE (IF 0 - limit > Len(F) THEN Len(F) ELSE 0 - limit)
    IN  SubSeq(F, start + 1, Len(F))

\* The limit admin_show_feedback asks for.
RecentLimit == 10

is_blocked(B, user_id) == user_id \in B

\* Mutant: every known user passes.
is_authorized_anyone(user_id) == user_id \in Users

is_authorized(user_id) == user_id \in AUTH_USERS

\* ------------------------------------------------------------ replies

NoReply ==
    [to |-> 0, msg |-> "", text |-> << >>, name |-> None, age |-> None,
     sent |-> 0, failed |-> 0, value |-> 0, entries |-> << >>]

Reply(to, msg) == [NoReply EXCEPT !.to = to, !.msg = msg]

\* format_profile: the ID line always, the Name line when profile.name is
\* truthy, the Age line when profile.age is not None.
format_profile(to, msg, profile) ==
    [Reply(to, msg) EXCEPT
        !.name = IF profile.name # None /\ profile.name[1] # << >>
                 THEN profile.name ELSE None,
        !.age = profile.age]

IdleFanout ==
    [active |-> FALSE, by |-> 0, text |-> << >>, targets |-> << >>, i |-> 0,
     sent |-> 0, failed |-> 0]

NoUserData == [pending_feedback |-> None, pending_broadcast |-> None, utility_mode |-> None]

\* ------------------------------------------------------------ initial state

Init ==
    /\ profiles = << >>
    /\ feedback = << >>
    /\ blocked_users = {}
    /\ AUTH_USERS \in AuthChoices
    /\ register_conv = [u \in Users |-> END]
    /\ feedback_conv = [u \in Users |-> END]
    /\ broadcast_conv = [u \in Users |-> END]
    /\ user_data = [u \in Users |-> NoUserData]
    /\ reply = NoReply
    /\ sends = << >>
    /\ fanout = IdleFanout
    /\ name_input = [u \in Users |-> << >>]
    /\ update_queue = << >>

\* ------------------------------------------------------------ dispatch

\* The handler the Application runs for an update of user u, all handlers
\* being in one group: the first whose check_update accepts it.  A
\* ConversationHandler accepts an update when its current state's handler or a
\* fallback matches, or, with no conversation, when an entry point matches.
Route(u, kind, data) ==
    IF kind = "command" THEN
        IF data \in {"start", "help", "echo", "profile", "admin_feedback"} THEN data
        ELSE IF register_conv[u] = END /\ data = "register" THEN "register_start"
        ELSE IF register_conv[u] # END /\ data = "cancel" THEN "register_cancel"
        ELSE IF feedback_conv[u] = END /\ data = "feedback" THEN "feedback_start"
        ELSE IF feedback_conv[u] # END /\ data = "cancel" THEN "feedback_cancel"
        ELSE IF broadcast_conv[u] = END /\ data = "broadcast" THEN "broadcast_start"
        ELSE IF broadcast_conv[u] # END /\ data = "cancel" THEN "broadcast_cancel"
        ELSE "unknown_command"
    ELSE IF kind = "text" THEN
        IF register_conv[u] = REGISTER_NAME THEN "register_name"
        ELSE IF register_conv[u] = REGISTER_AGE THEN "register_age"
        ELSE IF feedback_conv[u] = FEEDBACK_TEXT THEN "feedback_text"
        ELSE IF broadcast_conv[u] = BROADCAST_TEXT THEN "broadcast_text"
        ELSE "utility_text_handler"
    ELSE \* kind = "callback"
        IF feedback_conv[u] = FEEDBACK_CONFIRM /\ data \in {"feedback_confirm:yes", "feedback_confirm:no"}
            THEN "feedback_decision"
        ELSE IF broadcast_conv[u] = BROADCAST_CONFIRM
                /\ data \in {"broadcast_confirm:yes", "broadcast_confirm:no"}
            THEN "broadcast_decision"
        ELSE IF data \in {"menu_profile", "menu_utilities", "menu_feedback", "menu_admin_broadcast"}
            THEN "button_main_menu"
        ELSE IF data \in {"util_echo", "util_dice", "util_random", "util_back"}
            THEN "utility_menu_handler"
        ELSE "none"

\* Updates are processed one at a time: no handler starts while the
\* broadcast loop of an earlier update is unfinished.
Ready == ~fanout.active

\* An update as it waits in the queue.
Update(u, kind, data) == [user |-> u, kind |-> kind, data |-> data]

\* Mutant: updates are dispatched concurrently, a handler starting while the
\* broadcast loop of an earlier update is suspended.
Taken_concurrent(u, kind, data) ==
    \/ update_queue = << >> /\ UNCHANGED update_queue
    \/ /\ update_queue # << >>
       /\ Head(update_queue) = Update(u, kind, data)
       /\ update_queue' = Tail(update_queue)

\* The Application takes the next update for dispatch once the handler of the
\* one before has returned: the update at the head of the queue, or, the
\* queue being empty, one that arrives at this moment.
Taken(u, kind, data) ==
    /\ Ready
    /\ \/ update_queue = << >> /\ UNCHANGED update_queue
       \/ /\ update_queue # << >>
          /\ Head(update_queue) = Update(u, kind, data)
          /\ update_queue' = Tail(update_queue)

\* ------------------------------------------------------------ registration

register_start(u) ==
    /\ Taken(u, "command", "register")
    /\ Route(u, "command", "register") = "register_start"
    /\ profiles' = get_or_create_profile(profiles, u)
    /\ LET profile == ProfileOf(profiles', u)
       IN  reply' = IF profile.name # None /\ profile.name[1] # << >>
                    THEN [Reply(u, "Your current name is:") EXCEPT !.name = profile.name]
                    ELSE Reply(u, "Send your name.")
    /\ register_conv' = [register_conv EXCEPT ![u] = REGISTER_NAME]
    /\ name_input' = [name_input EXCEPT ![u] = << >>]
    /\ sends' = << >>
    /\ UNCHANGED << feedback, blocked_users, AUTH_USERS, feedback_conv, broadcast_conv,
                    user_data, fanout >>

register_name(u, text) ==
    /\ Taken(u, "text", text)
    /\ Route(u, "text", text) = "register_name"
    /\ sends' = << >>
    /\ LET name_text == Strip(text)
       IN  IF name_text = << >>
           THEN /\ reply' = Reply(u, "Name cannot be empty. Send your name.")
                /\ UNCHANGED << profiles, register_conv, name_input >>
           ELSE /\ register_conv' = [register_conv EXCEPT ![u] = REGISTER_AGE]
                /\ name_input' = [name_input EXCEPT ![u] = text]
                /\ profiles' = update_profile_name(profiles, u, name_text)
                /\ reply' = Reply(u, "Now send your age as a number.")
    /\ UNCHANGED << feedback, blocked_users, AUTH_USERS, feedback_conv, broadcast_conv,
                    user_data, fanout >>

register_age(u, text) ==
    /\ Taken(u, "text", text)
    /\ Route(u, "text", text) = "register_age"
    /\ sends' = << >>
    /\ IF ~IsInt(text)
       THEN /\ reply' = Reply(u, "Age must be a number. Send it again.")
            /\ UNCHANGED << profiles, register_conv >>
       ELSE IF AgeOutOfRange(ParseInt(text))
       THEN /\ reply' = Reply(u, "Age seems invalid. Send a realistic age.")
            /\ UNCHANGED << profiles, register_conv >>
       ELSE /\ register_conv' = [register_conv EXCEPT ![u] = END]
            /\ profiles' = update_profile_age(profiles, u, ParseInt(text))
            /\ reply' = format_profile(u, "Registration completed:", ProfileOf(profiles', u))
    /\ UNCHANGED << feedback, blocked_users, AUTH_USERS, feedback_conv, broadcast_conv,
                    user_data, fanout, name_input >>

\* Mutant: the cancellation takes back the name of the profile.
register_cancel_rollback(u) ==
    /\ Taken(u, "command", "cancel")
    /\ Route(u, "command", "cancel") = "register_cancel"
    /\ reply' = Reply(u, "Registration cancelled.")
    /\ register_conv' = [register_conv EXCEPT ![u] = END]
    /\ profiles' = [k \in DOMAIN profiles |->
                        IF profiles[k].user_id = u
                        THEN [profiles[k] EXCEPT !.name = None]
                        ELSE profiles[k]]
    /\ sends' = << >>
    /\ UNCHANGED << feedback, blocked_users, AUTH_USERS, feedback_conv,
                    broadcast_conv, user_data, fanout, name_input >>

register_cancel(u) ==
    /\ Taken(u, "command", "cancel")
    /\ Route(u, "command", "cancel") = "register_cancel"
    /\ reply' = Reply(u, "Registration cancelled.")
    /\ register_conv' = [register_conv EXCEPT ![u] = END]
    /\ sends' = << >>
    /\ UNCHANGED << profiles, feedback, blocked_users, AUTH_USERS, feedback_conv,
                    broadcast_conv, user_data, fanout, name_input >>

\* ------------------------------------------------------------ one-shot commands

\* Mutant: /start stores the display name whether or not a name is set.
start_overwrite(u, full_name) ==
    /\ Taken(u, "command", "start")
    /\ Route(u, "command", "start") = "start"
    /\ LET P == get_or_create_profile(profiles, u)
       IN  profiles' = IF full_name # << >>
                       THEN update_profile_name(P, u, full_name)
                       ELSE P
    /\ reply' = Reply(u, "Welcome to the utility bot.")
    /\ sends' = << >>
    /\ UNCHANGED << feedback, blocked_users, AUTH_USERS, register_conv, feedback_conv,
                    broadcast_conv, user_data, fanout, name_input >>

start(u, full_name) ==
    /\ Taken(u, "command", "start")
    /\ Route(u, "command", "start") = "start"
    /\ LET P == get_or_create_profile(profiles, u)
       IN  profiles' = IF ProfileOf(P, u).name = None /\ full_name # << >>
                       THEN update_profile_name(P, u, full_name)
                       ELSE P
    /\ reply' = Reply(u, "Welcome to the utility bot.")
    /\ sends' = << >>
    /\ UNCHANGED << feedback, blocked_users, AUTH_USERS, register_conv, feedback_conv,
                    broadcast_conv, user_data, fanout, name_input >>

help_command(u) ==
    /\ Taken(u, "command", "help")
    /\ Route(u, "command", "help") = "help"
    /\ reply' = IF is_authorized(u)
                THEN Reply(u, "Available commands: (with admin commands)")
                ELSE Reply(u, "Available commands:")
    /\ sends' = << >>
    /\ UNCHANGED << profiles, feedback, blocked_users, AUTH_USERS, register_conv,
                    feedback_conv, broadcast_conv, user_data, fanout, name_input >>

echo_command(u, args) ==
    /\ Taken(u, "command", "echo")
    /\ Route(u, "command", "echo") = "echo"
    /\ reply' = IF args # << >>
                THEN [Reply(u, "echo args") EXCEPT !.text = args]
                ELSE Reply(u, "Send text after /echo to repeat it.")
    /\ sends' = << >>
    /\ UNCHANGED << profiles, feedback, blocked_users, AUTH_USERS, register_conv,
                    feedback_conv, broadcast_conv, user_data, fanout, name_input >>

profile_command(u) ==
    /\ Taken(u, "command", "profile")
    /\ Route(u, "command", "profile") = "profile"
    /\ profiles' = get_or_create_profile(profiles, u)
    /\ reply' = format_profile(u, "profile", ProfileOf(profiles', u))
    /\ sends' = << >>
    /\ UNCHANGED << feedback, blocked_users, AUTH_USERS, register_conv, feedback_conv,
                    broadcast_conv, user_data, fanout, name_input >>

admin_show_feedback(u) ==
    /\ Taken(u, "command", "admin_feedback")
    /\ Route(u, "command", "admin_feedback") = "admin_feedback"
    /\ reply' = IF ~is_authorized(u)
                THEN Reply(u, "You are not authorized to use this command.")
                ELSE IF get_recent_feedback(feedback, RecentLimit) = << >>
                THEN Reply(u, "No feedback yet.")
                ELSE [Reply(u, "feedback entries") EXCEPT
                        !.entries = get_recent_feedback(feedback, RecentLimit)]
    /\ sends' = << >>
    /\ UNCHANGED << profiles, feedback, blocked_users, AUTH_USERS, register_conv,
                    feedback_conv, broadcast_conv, user_data, fanout, name_input >>

unknown_command(u, cmd) ==
    /\ Taken(u, "command", cmd)
    /\ Route(u, "command", cmd) = "unknown_command"
    /\ reply' = Reply(u, "Unknown command. Use /help.")
    /\ sends' = << >>
    /\ UNCHANGED << profiles, feedback, blocked_users, AUTH_USERS, register_conv,
                    feedback_conv, broadcast_conv, user_data, fanout, name_input >>

\* A callback query no handler accepts: the update is dropped without a reply.
unhandled_callback(u, data) ==
    /\ Taken(u, "callback", data)
    /\ Route(u, "callback", data) = "none"
    /\ reply' = NoReply
    /\ sends' = << >>
    /\ UNCHANGED << profiles, feedback, blocked_users, AUTH_USERS, register_conv,
                    feedback_conv, broadcast_conv, user_data, fanout, name_input >>

\* ------------------------------------------------------------ feedback

\* data.endswith("yes")
EndsWithYes(data) == data \in {"feedback_confirm:yes", "broadcast_confirm:yes"}

\* A set of user ids in increasing order (the iteration order of AUTH_USERS).
RECURSIVE InOrder(_)
InOrder(S) ==
    IF S = {} THEN << >>
    ELSE LET m == CHOOSE x \in S : \A y \in S : x <= y
         IN  << m >> \o InOrder(S \ {m})

\* Mutant: the first failed notification ends the loop.
RECURSIVE NotifyAdmins_abort(_, _)
NotifyAdmins_abort(admins, fails) ==
    IF admins = << >> THEN << >>
    ELSE IF Head(admins) \in fails THEN << [chat_id |-> Head(admins), ok |-> FALSE] >>
    ELSE << [chat_id |-> Head(admins), ok |-> TRUE] >>
            \o NotifyAdmins_abort(Tail(admins), fails)

\* The notification loop of feedback_decision over the administrators: one
\* send_message each, an exception of one being logged and the loop going on.
\* fails is the set of chats whose delivery raises.
RECURSIVE NotifyAdmins(_, _)
NotifyAdmins(admins, fails) ==
    IF admins = << >> THEN << >>
    ELSE << [chat_id |-> Head(admins), ok |-> Head(admins) \notin fails] >>
            \o NotifyAdmins(Tail(admins), fails)

feedback_start(u) ==
    /\ Taken(u, "command", "feedback")
    /\ Route(u, "command", "feedback") = "feedback_start"
    /\ reply' = Reply(u, "Send your feedback text or /cancel.")
    /\ feedback_conv' = [feedback_conv EXCEPT ![u] = FEEDBACK_TEXT]
    /\ sends' = << >>
    /\ UNCHANGED << profiles, feedback, blocked_users, AUTH_USERS, register_conv,
                    broadcast_conv, user_data, fanout, name_input >>

\* Mutant: a blank text is not turned away, and the flow goes on to the
\* confirmation with nothing staged.
feedback_text_blank_ok(u, msg_text) ==
    /\ Taken(u, "text", msg_text)
    /\ Route(u, "text", msg_text) = "feedback_text"
    /\ sends' = << >>
    /\ LET text == Strip(msg_text)
       IN  /\ user_data' = IF text = << >> THEN user_data
                           ELSE [user_data EXCEPT ![u].pending_feedback = Some(text)]
           /\ reply' = Reply(u, "Do you want to send this feedback?")
           /\ feedback_conv' = [feedback_conv EXCEPT ![u] = FEEDBACK_CONFIRM]
    /\ UNCHANGED << profiles, feedback, blocked_users, AUTH_USERS, register_conv,
                    broadcast_conv, fanout, name_input >>

feedback_text(u, msg_text) ==
    /\ Taken(u, "text", msg_text)
    /\ Route(u, "text", msg_text) = "feedback_text"
    /\ sends' = << >>
    /\ LET text == Strip(msg_text)
       IN  IF text = << >>
           THEN /\ reply' = Reply(u, "Feedback cannot be empty. Send your text.")
                /\ UNCHANGED << feedback_conv, user_data >>
           ELSE /\ user_data' = [user_data EXCEPT ![u].pending_feedback = Some(text)]
                /\ reply' = Reply(u, "Do you want to send this feedback?")
                /\ feedback_conv' = [feedback_conv EXCEPT ![u] = FEEDBACK_CONFIRM]
    /\ UNCHANGED << profiles, feedback, blocked_users, AUTH_USERS, register_conv,
                    broadcast_conv, fanout, name_input >>

feedback_decision(u, data, fails) ==
    /\ Taken(u, "callback", data)
    /\ Route(u, "callback", data) = "feedback_decision"
    /\ LET text == user_data[u].pending_feedback
       IN  IF text = None
           THEN /\ reply' = Reply(u, "No feedback to send.")
                /\ sends' = << >>
                /\ UNCHANGED << feedback, user_data >>
           ELSE IF EndsWithYes(data)
           THEN /\ Len(feedback) < MaxFeedback
                /\ feedback' = add_feedback(feedback, FeedbackEntry(u, text[1]))
                /\ sends' = NotifyAdmins(InOrder(AUTH_USERS), fails)
                /\ reply' = Reply(u, "Feedback sent. Thank you.")
                /\ user_data' = [user_data EXCEPT ![u].pending_feedback = None]
           ELSE /\ reply' = Reply(u, "Feedback discarded.")
                /\ sends' = << >>
                /\ user_data' = [user_data EXCEPT ![u].pending_feedback = None]
                /\ UNCHANGED feedback
    /\ feedback_conv' = [feedback_conv EXCEPT ![u] = END]
    /\ UNCHANGED << profiles, blocked_users, AUTH_USERS, register_conv, broadcast_conv,
                    fanout, name_input >>

feedback_cancel(u) ==
    /\ Taken(u, "command", "cancel")
    /\ Route(u, "command", "cancel") = "feedback_cancel"
    /\ reply' = Reply(u, "Feedback cancelled.")
    /\ user_data' = [user_data EXCEPT ![u].pending_feedback = None]
    /\ feedback_conv' = [feedback_conv EXCEPT ![u] = END]
    /\ sends' = << >>
    /\ UNCHANGED << profiles, feedback, blocked_users, AUTH_USERS, register_conv,
                    broadcast_conv, fanout, name_input >>

\* ------------------------------------------------------------ broadcast

\* Mutant: the rejection does not return, and the flow is entered all the same.
broadcast_start_no_return(u) ==
    /\ Taken(u, "command", "broadcast")
    /\ Route(u, "command", "broadcast") = "broadcast_start"
    /\ sends' = << >>
    /\ reply' = IF ~is_authorized(u)
                THEN Reply(u, "You are not authorized to broadcast.")
                ELSE Reply(u, "Send the broadcast message text or /cancel.")
    /\ broadcast_conv' = [broadcast_conv EXCEPT ![u] = BROADCAST_TEXT]
    /\ UNCHANGED << profiles, feedback, blocked_users, AUTH_USERS, register_conv,
                    feedback_conv, user_data, fanout, name_input >>

broadcast_start(u) ==
    /\ Taken(u, "command", "broadcast")
    /\ Route(u, "command", "broadcast") = "broadcast_start"
    /\ sends' = << >>
    /\ IF ~is_authorized(u)
       THEN /\ reply' = Reply(u, "You are not authorized to broadcast.")
            /\ UNCHANGED broadcast_conv
       ELSE /\ reply' = Reply(u, "Send the broadcast message text or /cancel.")
            /\ broadcast_conv' = [broadcast_conv EXCEPT ![u] = BROADCAST_TEXT]
    /\ UNCHANGED << profiles, feedback, blocked_users, AUTH_USERS, register_conv,
                    feedback_conv, user_data, fanout, name_input >>

broadcast_text(u, msg_text) ==
    /\ Taken(u, "text", msg_text)
    /\ Route(u, "text", msg_text) = "broadcast_text"
    /\ sends' = << >>
    /\ LET text == Strip(msg_text)
       IN  IF text = << >>
           THEN /\ reply' = Reply(u, "Broadcast text cannot be empty.")
                /\ UNCHANGED << broadcast_conv, user_data >>
           ELSE /\ user_data' = [user_data EXCEPT ![u].pending_broadcast = Some(text)]
                /\ reply' = Reply(u, "Send this message to all known users?")
                /\ broadcast_conv' = [broadcast_conv EXCEPT ![u] = BROADCAST_CONFIRM]
    /\ UNCHANGED << profiles, feedback, blocked_users, AUTH_USERS, register_conv,
                    feedback_conv, fanout, name_input >>

\* Mutant: the snapshot leaves out the confirming administrator.
StartFanout_without_sender(u, text, P) ==
    [active |-> TRUE, by |-> u, text |-> text,
     targets |-> SelectSeq(ProfileKeys(P), LAMBDA k : k # u), i |-> 1,
     sent |-> 0, failed |-> 0]

\* The loop state at entry to "for user_id in targets".
StartFanout(u, text, P) ==
    [active |-> TRUE, by |-> u, text |-> text, targets |-> ProfileKeys(P), i |-> 1,
     sent |-> 0, failed |-> 0]

\* broadcast_decision up to its first suspension inside the loop; the "yes"
\* branch goes on in fanout_skip, fanout_deliver and fanout_finish.
broadcast_decision(u, data) ==
    /\ Taken(u, "callback", data)
    /\ Route(u, "callback", data) = "broadcast_decision"
    /\ sends' = << >>
    /\ LET text == user_data[u].pending_broadcast
       IN  IF text = None
           THEN /\ reply' = Reply(u, "No broadcast pending.")
                /\ broadcast_conv' = [broadcast_conv EXCEPT ![u] = END]
                /\ UNCHANGED << user_data, fanout >>
           ELSE IF ~is_authorized(u)
           THEN /\ reply' = Reply(u, "Not authorized.")
                /\ broadcast_conv' = [broadcast_conv EXCEPT ![u] = END]
                /\ UNCHANGED << user_data, fanout >>
           ELSE IF EndsWithYes(data)
           THEN /\ fanout' = StartFanout(u, text[1], profiles)
                /\ reply' = NoReply
                /\ UNCHANGED << user_data, broadcast_conv >>
           ELSE /\ reply' = Reply(u, "Broadcast cancelled.")
                /\ user_data' = [user_data EXCEPT ![u].pending_broadcast = None]
                /\ broadcast_conv' = [broadcast_conv EXCEPT ![u] = END]
                /\ UNCHANGED fanout
    /\ UNCHANGED << profiles, feedback, blocked_users, AUTH_USERS, register_conv,
                    feedback_conv, name_input >>

\* Mutant: sent is counted before the delivery, so a failure counts twice.
FanoutIteration_count_first(f, B, ok) ==
    IF is_blocked(B, f.targets[f.i]) THEN [f EXCEPT !.i = @ + 1]
    ELSE IF ok THEN [f EXCEPT !.sent = @ + 1, !.i = @ + 1]
    ELSE [f EXCEPT !.sent = @ + 1, !.failed = @ + 1, !.i = @ + 1]

\* Mutant: a failed delivery ends the loop.
FanoutIteration_abort(f, B, ok) ==
    IF is_blocked(B, f.targets[f.i]) THEN [f EXCEPT !.i = @ + 1]
    ELSE IF ok THEN [f EXCEPT !.sent = @ + 1, !.i = @ + 1]
    ELSE [f EXCEPT !.failed = @ + 1, !.i = Len(f.targets) + 1]

\* The loop state after the iteration for the current target, whose delivery
\* (when one is attempted) succeeds iff ok.
FanoutIteration(f, B, ok) ==
    IF is_blocked(B, f.targets[f.i]) THEN [f EXCEPT !.i = @ + 1]
    ELSE IF ok THEN [f EXCEPT !.sent = @ + 1, !.i = @ + 1]
    ELSE [f EXCEPT !.failed = @ + 1, !.i = @ + 1]

\* The send_message calls after the iteration for the current target.
FanoutSends(S, f, B, ok) ==
    IF is_blocked(B, f.targets[f.i]) THEN S
    ELSE Append(S, [chat_id |-> f.targets[f.i], ok |-> ok])

\* One iteration for a blocklisted target: continue.
fanout_skip ==
    /\ fanout.active
    /\ UNCHANGED update_queue
    /\ fanout.i <= Len(fanout.targets)
    /\ is_blocked(blocked_users, fanout.targets[fanout.i])
    /\ fanout' = FanoutIteration(fanout, blocked_users, TRUE)
    /\ sends' = FanoutSends(sends, fanout, blocked_users, TRUE)
    /\ UNCHANGED << profiles, feedback, blocked_users, AUTH_USERS, register_conv,
                    feedback_conv, broadcast_conv, user_data, reply, name_input >>

\* One iteration for any other target: a delivery that succeeds (and is
\* followed by the pacing delay) or raises.
fanout_deliver(ok) ==
    /\ fanout.active
    /\ UNCHANGED update_queue
    /\ fanout.i <= Len(fanout.targets)
    /\ ~is_blocked(blocked_users, fanout.targets[fanout.i])
    /\ fanout' = FanoutIteration(fanout, blocked_users, ok)
    /\ sends' = FanoutSends(sends, fanout, blocked_users, ok)
    /\ UNCHANGED << profiles, feedback, blocked_users, AUTH_USERS, register_conv,
                    feedback_conv, broadcast_conv, user_data, reply, name_input >>

\* After the loop: the report, the staged text dropped, the conversation ended.
fanout_finish ==
    /\ fanout.active
    /\ UNCHANGED update_queue
    /\ fanout.i > Len(fanout.targets)
    /\ reply' = [Reply(fanout.by, "Broadcast finished.") EXCEPT
                    !.sent = fanout.sent, !.failed = fanout.failed]
    /\ user_data' = [user_data EXCEPT ![fanout.by].pending_broadcast = None]
    /\ broadcast_conv' = [broadcast_conv EXCEPT ![fanout.by] = END]
    /\ fanout' = IdleFanout
    /\ UNCHANGED << profiles, feedback, blocked_users, AUTH_USERS, register_conv,
                    feedback_conv, sends, name_input >>

broadcast_cancel(u) ==
    /\ Taken(u, "command", "cancel")
    /\ Route(u, "command", "cancel") = "broadcast_cancel"
    /\ reply' = Reply(u, "Broadcast cancelled.")
    /\ user_data' = [user_data EXCEPT ![u].pending_broadcast = None]
    /\ broadcast_conv' = [broadcast_conv EXCEPT ![u] = END]
    /\ sends' = << >>
    /\ UNCHANGED << profiles, feedback, blocked_users, AUTH_USERS, register_conv,
                    feedback_conv, fanout, name_input >>

\* ------------------------------------------------------------ menus and utilities

button_main_menu(u, data) ==
    /\ Taken(u, "callback", data)
    /\ Route(u, "callback", data) = "button_main_menu"
    /\ sends' = << >>
    /\ IF data = "menu_profile"
       THEN /\ profiles' = get_or_create_profile(profiles, u)
            /\ reply' = format_profile(u, "profile", ProfileOf(profiles', u))
            /\ UNCHANGED user_data
       ELSE IF data = "menu_utilities"
       THEN /\ reply' = Reply(u, "Choose a utility:")
            /\ user_data' = [user_data EXCEPT ![u].utility_mode = None]
            /\ UNCHANGED profiles
       ELSE IF data = "menu_feedback"
       THEN /\ reply' = Reply(u, "Use /feedback to send feedback message to admins.")
            /\ UNCHANGED << profiles, user_data >>
       ELSE /\ reply' = IF ~is_authorized(u)
                        THEN Reply(u, "You are not authorized for admin actions.")
                        ELSE Reply(u, "Use /broadcast to send message to all known users.")
            /\ UNCHANGED << profiles, user_data >>
    /\ UNCHANGED << feedback, blocked_users, AUTH_USERS, register_conv, feedback_conv,
                    broadcast_conv, fanout, name_input >>

\* value is the result of random.randint for the dice and random-number entries.
utility_menu_handler(u, data, value) ==
    /\ Taken(u, "callback", data)
    /\ Route(u, "callback", data) = "utility_menu_handler"
    /\ sends' = << >>
    /\ IF data = "util_back"
       THEN /\ value = 0
            /\ reply' = Reply(u, "Main menu:")
            /\ user_data' = [user_data EXCEPT ![u].utility_mode = None]
       ELSE IF data = "util_echo"
       THEN /\ value = 0
            /\ user_data' = [user_data EXCEPT ![u].utility_mode = Some("echo")]
            /\ reply' = Reply(u, "Send text and I will echo it.")
       ELSE IF data = "util_dice"
       THEN /\ value \in 1..6
            /\ reply' = [Reply(u, "Dice rolled:") EXCEPT !.value = value]
            /\ user_data' = [user_data EXCEPT ![u].utility_mode = None]
       ELSE /\ value \in 0..100
            /\ reply' = [Reply(u, "Random number:") EXCEPT !.value = value]
            /\ user_data' = [user_data EXCEPT ![u].utility_mode = None]
    /\ UNCHANGED << profiles, feedback, blocked_users, AUTH_USERS, register_conv,
                    feedback_conv, broadcast_conv, fanout, name_input >>

\* Mutant: without the echo flag the text is dropped, no reply being sent.
utility_text_handler_silent(u, text) ==
    /\ Taken(u, "text", text)
    /\ Route(u, "text", text) = "utility_text_handler"
    /\ reply' = IF user_data[u].utility_mode = Some("echo")
                THEN [Reply(u, "echo") EXCEPT !.text = text]
                ELSE NoReply
    /\ sends' = << >>
    /\ UNCHANGED << profiles, feedback, blocked_users, AUTH_USERS, register_conv,
                    feedback_conv, broadcast_conv, user_data, fanout, name_input >>

utility_text_handler(u, text) ==
    /\ Taken(u, "text", text)
    /\ Route(u, "text", text) = "utility_text_handler"
    /\ reply' = IF user_data[u].utility_mode = Some("echo")
                THEN [Reply(u, "echo") EXCEPT !.text = text]
                ELSE Reply(u, "I do not understand. Use /help or /start.")
    /\ sends' = << >>
    /\ UNCHANGED << profiles, feedback, blocked_users, AUTH_USERS, register_conv,
                    feedback_conv, broadcast_conv, user_data, fanout, name_input >>

\* ------------------------------------------------------------ environment

\* store.block_user / store.unblock_user, called by an administrative action
\* between two updates.
block_user(u) ==
    /\ Ready
    /\ UNCHANGED update_queue
    /\ blocked_users' = blocked_users \cup {u}
    /\ UNCHANGED << profiles, feedback, AUTH_USERS, register_conv, feedback_conv,
                    broadcast_conv, user_data, reply, sends, fanout, name_input >>

unblock_user(u) ==
    /\ Ready
    /\ UNCHANGED update_queue
    /\ blocked_users' = blocked_users \ {u}
    /\ UNCHANGED << profiles, feedback, AUTH_USERS, register_conv, feedback_conv,
                    broadcast_conv, user_data, reply, sends, fanout, name_input >>

\* The updater fetches an update and puts it on the queue, whatever the
\* Application is doing at that moment.
enqueue_update(u, kind, data) ==
    /\ Len(update_queue) < MaxQueue
    /\ update_queue' = Append(update_queue, Update(u, kind, data))
    /\ UNCHANGED << profiles, feedback, blocked_users, AUTH_USERS, register_conv,
                    feedback_conv, broadcast_conv, user_data, reply, sends, fanout,
                    name_input >>

\* The configured allow-list changing between two updates.
set_auth_users(A) ==
    /\ Ready
    /\ UNCHANGED update_queue
    /\ AUTH_USERS' = A
    /\ UNCHANGED << profiles, feedback, blocked_users, register_conv, feedback_conv,
                    broadcast_conv, user_data, reply, sends, fanout, name_input >>

\* ------------------------------------------------------------ updates

\* The processing of one inbound update, whichever handler the dispatch picks.
RegisterUpdate(u) == register_start(u) \/ unknown_command(u, "register")

FeedbackUpdate(u) == feedback_start(u) \/ unknown_command(u, "feedback")

BroadcastUpdate(u) == broadcast_start(u) \/ unknown_command(u, "broadcast")

CancelUpdate(u) ==
    \/ register_cancel(u)
    \/ feedback_cancel(u)
    \/ broadcast_cancel(u)
    \/ unknown_command(u, "cancel")

TextUpdate(u, text) ==
    \/ register_name(u, text)
    \/ register_age(u, text)
    \/ feedback_text(u, text)
    \/ broadcast_text(u, text)
    \/ utility_text_handler(u, text)

\* The values random.randint may return for a utility menu entry.
UtilityValues(data) ==
    IF data = "util_dice" THEN 1..6 ELSE IF data = "util_random" THEN 0..100 ELSE {0}

CallbackUpdate(u, data, fails) ==
    \/ feedback_decision(u, data, fails)
    \/ broadcast_decision(u, data)
    \/ button_main_menu(u, data)
    \/ \E value \in UtilityValues(data) : utility_menu_handler(u, data, value)
    \/ unhandled_callback(u, data)

\* ------------------------------------------------------------ registration runs

\* Texts sent at the name step: blank, and a name with surrounding whitespace.
NameTexts == { << " " >>, << " ", "A", " " >> }

\* Texts sent at the age step: not integers, integers at and around the range
\* limits, and integer spellings int() accepts.
AgeTexts ==
    { << " " >>, << "3", "x" >>, << "-", "1" >>, << "0" >>, << " ", "1" >>,
      << "1", "2", "1" >>, << "+", "1", "_", "2", "0" >> }

\* The texts of AgeTexts that register_age rejects.
InvalidAgeTexts == { t \in AgeTexts : ~IsInt(t) \/ ParseInt(t) \notin 1..120 }

\* The texts of AgeTexts that read as an integer within 1..120.
ValidAgeTexts == { t \in AgeTexts : IsInt(t) /\ ParseInt(t) \in 1..120 }

\* The texts of NameTexts that are non-empty after trimming.
NonBlankNameTexts == { n \in NameTexts : Strip(n) # << >> }

\* Platform display names seen by /start.
FullNames == { << >>, << "Z" >> }

InitReg == Init /\ AUTH_USERS = {}

NextReg ==
    \E u \in Users :
        \/ RegisterUpdate(u)
        \/ \E text \in NameTexts : register_name(u, text)
        \/ \E text \in AgeTexts : register_age(u, text)
        \/ register_cancel(u)

SpecReg == InitReg /\ [][NextReg]_vars

\* C1 as stated: for every user u, every name text n that is non-empty after
\* trimming and every age text reading as an integer a with 1 <= a <= 120,
\* /register from an idle registration flow moves the flow to awaiting-name,
\* the text n is dispatched to register_name and moves it to awaiting-age, and the text a ends it idle with the
\* profile of u holding user_id = u, name = n (the text as sent) and age = a.
\* (Every handler of the flow answers its sender, so the steps to look at are
\* those whose reply goes to u.)
C1_RegistrationStoresNameAsSent ==
    /\ [](\A u \in Users : \A n \in NonBlankNameTexts :
              register_conv[u] = REGISTER_NAME
                  => Route(u, "text", n) = "register_name")
    /\ [][\A u \in Users : reply'.to = u =>
        /\ (register_conv[u] = END /\ RegisterUpdate(u))
              => register_conv'[u] = REGISTER_NAME
        /\ register_conv[u] = REGISTER_NAME =>
              \A n \in NonBlankNameTexts :
                  register_name(u, n)
                  => /\ register_conv'[u] = REGISTER_AGE
                     /\ name_input'[u] = n
        /\ register_conv[u] = REGISTER_AGE =>
              \A t \in ValidAgeTexts :
                  register_age(u, t)
                  => /\ register_conv'[u] = END
                     /\ HasProfile(profiles', u)
                     /\ ProfileOf(profiles', u) =
                            [user_id |-> u, name |-> Some(name_input[u]),
                             age |-> Some(ParseInt(t))]
      ]_vars

\* C1 amended: as C1, the stored name being n with its leading and trailing
\* whitespace removed.
C1_RegistrationStoresTrimmedName ==
    /\ [](\A u \in Users : \A n \in NonBlankNameTexts :
              register_conv[u] = REGISTER_NAME
                  => Route(u, "text", n) = "register_name")
    /\ [][\A u \in Users : reply'.to = u =>
        /\ (register_conv[u] = END /\ RegisterUpdate(u))
              => register_conv'[u] = REGISTER_NAME
        /\ register_conv[u] = REGISTER_NAME =>
              \A n \in NonBlankNameTexts :
                  register_name(u, n)
                  => /\ register_conv'[u] = REGISTER_AGE
                     /\ name_input'[u] = n
        /\ register_conv[u] = REGISTER_AGE =>
              \A t \in ValidAgeTexts :
                  register_age(u, t)
                  => /\ register_conv'[u] = END
                     /\ HasProfile(profiles', u)
                     /\ ProfileOf(profiles', u) =
                            [user_id |-> u, name |-> Some(Strip(name_input[u])),
                             age |-> Some(ParseInt(t))]
      ]_vars

\* A registration completed with a name sent with surrounding whitespace and
\* an age at the upper limit, while another user has a profile too.
C1_Witness ==
    \E u \in Users :
        /\ reply.to = u
        /\ reply.msg = "Registration completed:"
        /\ register_conv[u] = END
        /\ name_input[u] = << " ", "A", " " >>
        /\ ProfileOf(profiles, u).age = Some(120)
        /\ Len(profiles) > 1

\* C2: in awaiting-age every free text is handled by the age step, and a text
\* that is not an integer, or is an integer outside 1..120, gets a re-prompt,
\* leaves the flow in awaiting-age and leaves the whole Directory unchanged,
\* however many invalid texts came before.
C2_InvalidAgeReprompts ==
    /\ [](\A u \in Users : \A t \in AgeTexts :
            register_conv[u] = REGISTER_AGE => Route(u, "text", t) = "register_age")
    /\ [][\A u \in Users :
            register_conv[u] = REGISTER_AGE =>
                \A t \in InvalidAgeTexts :
                    register_age(u, t)
                    => /\ reply'.to = u
                       /\ reply'.msg \in {"Age must be a number. Send it again.",
                                          "Age seems invalid. Send a realistic age."}
                       /\ register_conv'[u] = REGISTER_AGE
                       /\ profiles' = profiles
         ]_vars

\* Two invalid ages in a row: the second re-prompt, for an out-of-range
\* integer, issued in awaiting-age on top of the first.
C2_Witness ==
    \E u \in Users :
        /\ reply.to = u
        /\ reply.msg = "Age seems invalid. Send a realistic age."
        /\ register_conv[u] = REGISTER_AGE
        /\ HasProfile(profiles, u)
        /\ ProfileOf(profiles, u).age # None

\* ------------------------------------------------------------ broadcast runs

\* Texts sent at the broadcast text step: blank, and a text with surrounding
\* whitespace.
BroadcastTexts == { << " " >>, << " ", "H" >> }

ConfirmData == {"broadcast_confirm:yes", "broadcast_confirm:no"}

NextBroadcast ==
    \/ \E u \in Users :
        \/ profile_command(u)
        \/ block_user(u)
        \/ unblock_user(u)
        \/ BroadcastUpdate(u)
        \/ \E text \in BroadcastTexts : broadcast_text(u, text)
        \/ \E text \in BroadcastTexts : utility_text_handler(u, text)
        \/ \E data \in ConfirmData : broadcast_decision(u, data)
        \/ \E data \in ConfirmData : unhandled_callback(u, data)
        \/ broadcast_cancel(u)
    \/ \E A \in AuthChoices : set_auth_users(A)
    \/ fanout_skip
    \/ \E ok \in BOOLEAN : fanout_deliver(ok)
    \/ fanout_finish

SpecBroadcast == Init /\ [][NextBroadcast]_vars

\* The broadcast loop is not abandoned: each iteration's delivery returns or
\* raises, and the handler runs on to its report.
SpecBroadcastFair ==
    /\ SpecBroadcast
    /\ WF_vars(fanout_skip)
    /\ WF_vars(\E ok \in BOOLEAN : fanout_deliver(ok))
    /\ WF_vars(fanout_finish)

\* ------------------------------------------------------------ feedback runs

\* Texts sent at the feedback text step: blank, and a text with surrounding
\* whitespace.
FeedbackTexts == { << " " >>, << "F", " " >> }

FeedbackData == {"feedback_confirm:yes", "feedback_confirm:no"}

NextFeedback ==
    \/ \E u \in Users :
        \/ FeedbackUpdate(u)
        \/ \E text \in FeedbackTexts : feedback_text(u, text)
        \/ \E data \in FeedbackData : \E fails \in SUBSET AUTH_USERS :
                feedback_decision(u, data, fails)
        \/ \E data \in FeedbackData : unhandled_callback(u, data)
        \/ feedback_cancel(u)
        \/ admin_show_feedback(u)
    \/ \E A \in AuthChoices : set_auth_users(A)

SpecFeedback == Init /\ [][NextFeedback]_vars

\* ------------------------------------------------------------ confirmation runs

\* The feedback and broadcast flows side by side, every confirmation answered
\* either way.
NextConfirm ==
    \/ \E u \in Users :
        \/ FeedbackUpdate(u)
        \/ BroadcastUpdate(u)
        \/ \E text \in FeedbackTexts : feedback_text(u, text)
        \/ \E text \in BroadcastTexts : broadcast_text(u, text)
        \/ \E data \in FeedbackData : \E fails \in SUBSET AUTH_USERS :
                feedback_decision(u, data, fails)
        \/ \E data \in ConfirmData : broadcast_decision(u, data)
    \/ \E A \in AuthChoices : set_auth_users(A)
    \/ fanout_finish

SpecConfirm == Init /\ [][NextConfirm]_vars

\* ------------------------------------------------------------ session runs

\* The one free text of the session runs.
SessionTexts == { << "p" >> }

SessionData == {"menu_utilities", "util_echo", "util_back"}

InitSession == Init /\ AUTH_USERS = {1}

\* Every flow's entry command, /cancel, free text and the utility menu, for
\* every user in any order.
NextSession ==
    \E u \in Users :
        \/ RegisterUpdate(u)
        \/ FeedbackUpdate(u)
        \/ BroadcastUpdate(u)
        \/ CancelUpdate(u)
        \/ \E text \in SessionTexts : TextUpdate(u, text)
        \/ \E data \in SessionData : button_main_menu(u, data)
        \/ \E data \in SessionData : utility_menu_handler(u, data, 0)

SpecSession == InitSession /\ [][NextSession]_vars

\* ------------------------------------------------------------ all updates

Texts == NameTexts \cup AgeTexts \cup FeedbackTexts \cup BroadcastTexts \cup SessionTexts

CallbackData ==
    FeedbackData \cup ConfirmData
        \cup {"menu_profile", "menu_utilities", "menu_feedback", "menu_admin_broadcast"}
        \cup {"util_echo", "util_dice", "util_random", "util_back"}

\* Any update of any user, any administrative action, any step of a running
\* broadcast loop.  The runs above are this relation with the environment
\* held to the updates and texts of one part of the bot.
Next ==
    \/ \E u \in Users :
        \/ \E full_name \in FullNames : start(u, full_name)
        \/ help_command(u)
        \/ \E args \in SessionTexts \cup {<< >>} : echo_command(u, args)
        \/ profile_command(u)
        \/ admin_show_feedback(u)
        \/ RegisterUpdate(u)
        \/ FeedbackUpdate(u)
        \/ BroadcastUpdate(u)
        \/ CancelUpdate(u)
        \/ unknown_command(u, "other")
        \/ \E text \in Texts : TextUpdate(u, text)
        \/ \E data \in CallbackData : \E fails \in SUBSET AUTH_USERS :
                CallbackUpdate(u, data, fails)
        \/ block_user(u)
        \/ unblock_user(u)
    \/ \E A \in AuthChoices : set_auth_users(A)
    \/ fanout_skip
    \/ \E ok \in BOOLEAN : fanout_deliver(ok)
    \/ fanout_finish

Spec == Init /\ [][Next]_vars

\* ------------------------------------------------------------ fan-out claims

\* The loop has run over its whole snapshot and the report is not yet issued.
LoopDone == fanout.active /\ fanout.i > Len(fanout.targets)

\* Number of snapshot recipients that are blocklisted.
BlockedInSnapshot ==
    Cardinality({k \in DOMAIN fanout.targets : fanout.targets[k] \in blocked_users})

\* Number of deliveries that were attempted and raised / returned.
FailedSends == Cardinality({k \in DOMAIN sends : ~sends[k].ok})
OkSends == Cardinality({k \in DOMAIN sends : sends[k].ok})

\* The recipients of the first n snapshot entries that are not blocklisted, in
\* snapshot order.
RECURSIVE Eligible(_, _)
Eligible(targets, n) ==
    IF n = 0 THEN << >>
    ELSE IF targets[n] \in blocked_users THEN Eligible(targets, n - 1)
    ELSE Append(Eligible(targets, n - 1), targets[n])

\* C3: when the loop has run over a snapshot of size S with B blocklisted
\* recipients and F failed deliveries, sent = S-B-F, failed = F, the number of
\* recipients with no delivery attempt is B, and the report carries these
\* counts of successful and failed deliveries.
C3_FanoutCounts ==
    /\ LoopDone =>
        /\ fanout.sent = Len(fanout.targets) - BlockedInSnapshot - FailedSends
        /\ fanout.failed = FailedSends
        /\ Len(fanout.targets) - Len(sends) = BlockedInSnapshot
        /\ fanout.sent + fanout.failed + BlockedInSnapshot = Len(fanout.targets)
    /\ reply.msg = "Broadcast finished." =>
        /\ reply.sent = OkSends
        /\ reply.failed = FailedSends
        /\ reply.sent + reply.failed + (Len(profiles) - Len(sends)) = Len(profiles)

\* A loop over a snapshot of two with one recipient blocklisted and the other
\* delivery failed.
C3_Witness ==
    /\ LoopDone
    /\ Len(fanout.targets) = 2
    /\ BlockedInSnapshot = 1
    /\ FailedSends = 1
    /\ fanout.sent = 0
    /\ fanout.failed = 1

\* C4: a started fan-out runs over its whole snapshot: after each iteration
\* the deliveries attempted so far are exactly one per non-blocklisted
\* recipient passed, in snapshot order, whatever failed before; and the report
\* is eventually issued.
C4_FanoutExhaustive ==
    /\ [](fanout.active =>
            /\ fanout.i \in 1..(Len(fanout.targets) + 1)
            /\ [k \in DOMAIN sends |-> sends[k].chat_id]
                   = Eligible(fanout.targets, fanout.i - 1))
    /\ (fanout.active ~> (~fanout.active /\ reply.msg = "Broadcast finished."))

\* The loop run to its end over two recipients, the first delivery having
\* failed and the second having been attempted all the same.
C4_Witness ==
    /\ LoopDone
    /\ Len(sends) = 2
    /\ ~sends[1].ok

\* C5: a confirmation pressed by an identity that is not in the allow-list at
\* that moment is answered "Not authorized.", attempts no delivery, starts no
\* fan-out and ends the flow; a fan-out runs only for a confirmer in the
\* allow-list.
C5_ConfirmRechecksAuthorization ==
    /\ [](fanout.active => fanout.by \in AUTH_USERS)
    /\ [][\A u \in Users :
            (u \notin AUTH_USERS /\ broadcast_conv[u] = BROADCAST_CONFIRM) =>
                \A data \in ConfirmData :
                    broadcast_decision(u, data)
                    => /\ reply' = Reply(u, "Not authorized.")
                       /\ sends' = << >>
                       /\ ~fanout'.active
                       /\ broadcast_conv'[u] = END
         ]_vars

\* A confirmation rejected for a user whose /broadcast had been accepted and
\* whose text was staged.
C5_Witness ==
    \E u \in Users :
        /\ reply = Reply(u, "Not authorized.")
        /\ u \notin AUTH_USERS
        /\ user_data[u].pending_broadcast # None
        /\ broadcast_conv[u] = END

ActiveFlows(u) ==
    Cardinality({c \in {"register", "feedback", "broadcast"} :
        \/ c = "register" /\ register_conv[u] # END
        \/ c = "feedback" /\ feedback_conv[u] # END
        \/ c = "broadcast" /\ broadcast_conv[u] # END})

\* C7: in every reachable state at most one of the registration, feedback and
\* broadcast flows is active for any one user.
C7_AtMostOneFlowPerUser == \A u \in Users : ActiveFlows(u) <= 1

\* C8: free text reaching the utility text handler is echoed exactly when the
\* echo flag is set, and the echo clears the flag, so that the next such text
\* gets the guidance reply.
C8_EchoIsSingleShot ==
    [][\A u \in Users : \A t \in SessionTexts :
        utility_text_handler(u, t) =>
            IF user_data[u].utility_mode = Some("echo")
            THEN /\ reply' = [Reply(u, "echo") EXCEPT !.text = t]
                 /\ user_data'[u].utility_mode = None
            ELSE reply' = Reply(u, "I do not understand. Use /help or /start.")
      ]_vars

\* C9: a "no" confirmation of the feedback or broadcast flow clears that
\* flow's staged text and returns the flow to idle, leaves the Feedback Log
\* unchanged and delivers nothing.
C9_NoDiscardsStagedInput ==
    [][\A u \in Users :
        /\ \A fails \in SUBSET AUTH_USERS :
              feedback_decision(u, "feedback_confirm:no", fails)
              => /\ user_data'[u].pending_feedback = None
                 /\ feedback_conv'[u] = END
                 /\ feedback' = feedback
                 /\ sends' = << >>
                 /\ ~fanout'.active
        /\ broadcast_decision(u, "broadcast_confirm:no")
              => /\ user_data'[u].pending_broadcast = None
                 /\ broadcast_conv'[u] = END
                 /\ feedback' = feedback
                 /\ sends' = << >>
                 /\ ~fanout'.active
      ]_vars

\* C10: a "yes" confirmation of the feedback flow appends exactly one entry
\* with the confirming user's id and the staged text, attempts one
\* notification per administrator whichever of them fail, replies with the
\* success message, and leaves the flow idle with nothing staged; with the
\* flow idle a further "yes" callback reaches no handler and appends nothing.
C10_FeedbackYesAppendsOnce ==
    /\ [](\A u \in Users :
            feedback_conv[u] = END
                => Route(u, "callback", "feedback_confirm:yes") # "feedback_decision")
    /\ [][\A u \in Users :
            /\ feedback_conv[u] = FEEDBACK_CONFIRM =>
                \A fails \in SUBSET AUTH_USERS :
                    feedback_decision(u, "feedback_confirm:yes", fails)
                    => /\ feedback' = Append(feedback,
                              [user_id |-> u, text |-> user_data[u].pending_feedback[1]])
                       /\ Len(sends') = Cardinality(AUTH_USERS)
                       /\ {sends'[k].chat_id : k \in DOMAIN sends'} = AUTH_USERS
                       /\ \A k \in DOMAIN sends' : sends'[k].ok <=> sends'[k].chat_id \notin fails
                       /\ reply' = Reply(u, "Feedback sent. Thank you.")
                       /\ feedback_conv'[u] = END
                       /\ user_data'[u].pending_feedback = None
            /\ \A data \in FeedbackData :
                    unhandled_callback(u, data) => feedback' = feedback
         ]_vars

\* A feedback confirmed with two administrators, the notification of the first
\* having failed and that of the second having been attempted all the same.
C10_Witness ==
    /\ reply.msg = "Feedback sent. Thank you."
    /\ Len(feedback) > 0
    /\ feedback[Len(feedback)].user_id = reply.to
    /\ Len(sends) = 2
    /\ ~sends[1].ok
    /\ feedback_conv[reply.to] = END

\* ------------------------------------------------------------ feedback log queries

\* Largest limit asked of get_recent_feedback in the query runs.
MaxLimit == 3

\* A call store.get_recent_feedback(limit); the result is recorded in reply.
call_get_recent_feedback(limit) ==
    /\ Ready
    /\ UNCHANGED update_queue
    /\ reply' = [NoReply EXCEPT !.msg = "get_recent_feedback",
                                !.value = limit,
                                !.entries = get_recent_feedback(feedback, limit)]
    /\ sends' = << >>
    /\ UNCHANGED << profiles, feedback, blocked_users, AUTH_USERS, register_conv,
                    feedback_conv, broadcast_conv, user_data, fanout, name_input >>

InitRecent == Init /\ AUTH_USERS = {1}

\* The feedback flow filling the log, and the log queried with every limit
\* from 0 to MaxLimit.
NextRecent ==
    \/ \E u \in Users :
        \/ FeedbackUpdate(u)
        \/ \E text \in FeedbackTexts : feedback_text(u, text)
        \/ \E data \in FeedbackData : feedback_decision(u, data, {})
        \/ admin_show_feedback(u)
    \/ \E limit \in 0..MaxLimit : call_get_recent_feedback(limit)

SpecRecent == InitRecent /\ [][NextRecent]_vars

\* The last n entries of F, oldest first.
LastEntries(F, n) == [i \in 1..n |-> F[Len(F) - n + i]]

Min(a, b) == IF a <= b THEN a ELSE b

\* C11: for every k >= 0 (k = 0 included) get_recent_feedback(k) returns at
\* most k entries, they are the last min(k, |log|) entries of the log in
\* insertion order, and the result is the whole log whenever |log| <= k.
C11_RecentReturnsLastK ==
    reply.msg = "get_recent_feedback" =>
        /\ Len(reply.entries) <= reply.value
        /\ reply.entries = LastEntries(feedback, Min(reply.value, Len(feedback)))
        /\ Len(feedback) <= reply.value => reply.entries = feedback

\* ------------------------------------------------------------ further registration claims

\* C12: /cancel sent while the registration flow awaits the name or the age
\* is dispatched to register_cancel, returns the flow to idle and leaves the
\* Directory as it was; after a cancellation at the age step the profile still
\* holds the name committed by the name step.
C12_CancelKeepsDirectory ==
    /\ [](\A u \in Users :
            register_conv[u] # END => Route(u, "command", "cancel") = "register_cancel")
    /\ [][\A u \in Users :
            (register_conv[u] # END /\ register_cancel(u))
                => /\ register_conv'[u] = END
                   /\ profiles' = profiles
                   /\ reply' = Reply(u, "Registration cancelled.")
                   /\ register_conv[u] = REGISTER_AGE =>
                         /\ HasProfile(profiles', u)
                         /\ ProfileOf(profiles', u).name = Some(Strip(name_input[u]))
         ]_vars

\* A registration cancelled at the age step by a user registered before: the
\* name just sent and the earlier age are in the profile.
C12_Witness ==
    \E u \in Users :
        /\ reply = Reply(u, "Registration cancelled.")
        /\ register_conv[u] = END
        /\ name_input[u] = << " ", "A", " " >>
        /\ HasProfile(profiles, u)
        /\ ProfileOf(profiles, u).name = Some(<< "A" >>)
        /\ ProfileOf(profiles, u).age = Some(120)

\* ------------------------------------------------------------ staged input claims

\* The feedback and broadcast flows from entry to every way out of them:
\* confirmation either way, /cancel, and user 1 entering and leaving the
\* allow-list, before a confirmation too.  No profile is created in these runs, so a confirmed
\* broadcast loops over an empty snapshot and goes on to its report.
NextStaged ==
    \/ \E u \in Users :
        \/ FeedbackUpdate(u)
        \/ BroadcastUpdate(u)
        \/ feedback_cancel(u)
        \/ broadcast_cancel(u)
        \/ \E text \in FeedbackTexts : feedback_text(u, text)
        \/ \E text \in BroadcastTexts : broadcast_text(u, text)
        \/ \E data \in FeedbackData : feedback_decision(u, data, {})
        \/ \E data \in ConfirmData : broadcast_decision(u, data)
    \/ \E A \in SUBSET {1} : set_auth_users(A)
    \/ fanout_finish

SpecStaged == InitSession /\ [][NextStaged]_vars

\* C13: in every reachable state and for every user, a feedback flow awaiting
\* confirmation has its feedback text staged and a broadcast flow awaiting
\* confirmation has its broadcast text staged; so no decision handler answers
\* "No feedback to send." or "No broadcast pending.".
C13_ConfirmHasStagedInput ==
    /\ \A u \in Users :
        /\ feedback_conv[u] = FEEDBACK_CONFIRM => user_data[u].pending_feedback # None
        /\ broadcast_conv[u] = BROADCAST_CONFIRM => user_data[u].pending_broadcast # None
    /\ reply.msg \notin {"No feedback to send.", "No broadcast pending."}

\* One user awaiting both confirmations after an earlier feedback of theirs
\* was confirmed and its staged text cleared.
C13_Witness ==
    \E u \in Users :
        /\ feedback_conv[u] = FEEDBACK_CONFIRM
        /\ broadcast_conv[u] = BROADCAST_CONFIRM
        /\ user_data[u].pending_feedback = Some(<< "F" >>)
        /\ user_data[u].pending_broadcast = Some(<< "H" >>)
        /\ Len(feedback) > 0
        /\ feedback[1].user_id = u

\* C14: in every reachable state and for every user, feedback text is staged
\* only while the feedback flow awaits confirmation and broadcast text is
\* staged only while the broadcast flow awaits confirmation: every way out of
\* the confirmation (yes, no, /cancel, the rejection of an unauthorized
\* broadcast confirmation) clears the staged text.
C14_StagedOnlyInConfirm ==
    \A u \in Users :
        /\ user_data[u].pending_feedback # None => feedback_conv[u] = FEEDBACK_CONFIRM
        /\ user_data[u].pending_broadcast # None => broadcast_conv[u] = BROADCAST_CONFIRM

\* ------------------------------------------------------------ first contact

\* Arguments given to /echo: none, and one word.
EchoArgs == { << >>, << "p" >> }

\* An inbound event of user u in the first-contact runs: /start, /help,
\* /echo, /profile, /feedback, /broadcast, free text, a confirmation.
ContactUpdate(u) ==
    \/ \E full_name \in FullNames : start(u, full_name)
    \/ help_command(u)
    \/ \E args \in EchoArgs : echo_command(u, args)
    \/ profile_command(u)
    \/ feedback_start(u)
    \/ feedback_cancel(u)
    \/ broadcast_start(u)
    \/ \E text \in SessionTexts : broadcast_text(u, text)
    \/ \E text \in SessionTexts : utility_text_handler(u, text)
    \/ \E data \in ConfirmData : broadcast_decision(u, data)

InitContact == Init /\ AUTH_USERS = {1}

NextContact ==
    \/ \E u \in Users : ContactUpdate(u)
    \/ \E ok \in BOOLEAN : fanout_deliver(ok)
    \/ fanout_finish

SpecContact == InitContact /\ [][NextContact]_vars

\* C15: after any inbound event of user u has been processed (/help, /echo,
\* /feedback and free text included), u is a key of the Directory; so the
\* snapshot of a broadcast holds every user heard from before it, the
\* confirming administrator among them.
C15_ProfileOnFirstContact ==
    /\ [][\A u \in Users : ContactUpdate(u) => HasProfile(profiles', u)]_vars
    /\ [](fanout.active =>
            \E k \in DOMAIN fanout.targets : fanout.targets[k] = fanout.by)

\* ------------------------------------------------------------ utility menu

UtilityData == {"util_echo", "util_dice", "util_random", "util_back"}

\* The utility menu opened and every entry of it pressed, with every value
\* the random source may give, and free text sent in between.
NextUtility ==
    \E u \in Users :
        \/ button_main_menu(u, "menu_utilities")
        \/ \E data \in UtilityData : \E value \in UtilityValues(data) :
                utility_menu_handler(u, data, value)
        \/ \E text \in SessionTexts : utility_text_handler(u, text)

SpecUtility == InitSession /\ [][NextUtility]_vars

\* C16: pressing the dice or the random-number entry leaves the user's
\* session as it was (flow states, staged texts and the echo flag, a flag set
\* by an earlier "echo" entry staying set), and the value shown is an integer
\* in 1..6 for the dice and in 0..100 for the random number.
C16_DiceAndRandomKeepSession ==
    [][\A u \in Users : \A data \in {"util_dice", "util_random"} :
        \A value \in UtilityValues(data) :
            utility_menu_handler(u, data, value)
            => /\ user_data' = user_data
               /\ register_conv' = register_conv
               /\ feedback_conv' = feedback_conv
               /\ broadcast_conv' = broadcast_conv
               /\ reply'.value \in (IF data = "util_dice" THEN 1..6 ELSE 0..100)
      ]_vars

\* ------------------------------------------------------------ queued updates

YesData == {"broadcast_confirm:yes"}

\* The updates that arrive in the queue runs: /profile, /broadcast, a free
\* text and the affirmative broadcast confirmation, of any user.
QueueUpdates ==
    { Update(u, "command", c) : u \in Users, c \in {"profile", "broadcast"} }
        \cup { Update(u, "text", t) : u \in Users, t \in SessionTexts }
        \cup { Update(u, "callback", d) : u \in Users, d \in YesData }

\* Updates arriving at any moment, a broadcast loop in progress included, and
\* the Application dispatching them.
NextQueue ==
    \/ \E upd \in QueueUpdates : enqueue_update(upd.user, upd.kind, upd.data)
    \/ \E u \in Users :
        \/ profile_command(u)
        \/ BroadcastUpdate(u)
        \/ \E text \in SessionTexts : broadcast_text(u, text)
        \/ \E text \in SessionTexts : utility_text_handler(u, text)
        \/ \E data \in YesData : broadcast_decision(u, data)
        \/ \E data \in YesData : unhandled_callback(u, data)
    \/ \E ok \in BOOLEAN : fanout_deliver(ok)
    \/ fanout_finish

SpecQueue == InitSession /\ [][NextQueue]_vars

\* s is t with zero or more updates added at its end.
IsPrefix(s, t) == Len(s) <= Len(t) /\ SubSeq(t, 1, Len(s)) = s

\* The users that were sent a delivery by the handler that ran last.
Recipients == { sends[k].chat_id : k \in DOMAIN sends }

\* C17: the recipients of a fan-out are the Directory's keys at the moment the
\* affirmative confirmation is processed: the snapshot is taken then and never
\* changes, deliveries go to snapshot members only, and a user whose first
\* update arrives while the loop is suspended has no profile until the loop
\* has reported, gets no delivery and is not counted.
C17_SnapshotAtConfirmation ==
    /\ [][\A u \in Users : \A data \in YesData :
            (broadcast_decision(u, data) /\ fanout'.active)
                => fanout'.targets = ProfileKeys(profiles)]_vars
    /\ [][(fanout.active /\ fanout'.active) => fanout'.targets = fanout.targets]_vars
    /\ [](fanout.active =>
            /\ fanout.targets = ProfileKeys(profiles)
            /\ Recipients \subseteq {fanout.targets[k] : k \in DOMAIN fanout.targets}
            /\ fanout.sent + fanout.failed = Len(sends)
            /\ Len(sends) <= Len(fanout.targets))

\* The loop run over a snapshot of one while the first update of the other
\* user waits in the queue: that user has no profile and got no delivery.
C17_Witness ==
    /\ LoopDone
    /\ fanout.targets = << 1 >>
    /\ Len(sends) = 1
    /\ update_queue # << >>
    /\ Head(update_queue) = Update(2, "command", "profile")
    /\ ~HasProfile(profiles, 2)

\* C18: updates are handled one at a time in arrival order.  While a
\* broadcast loop is suspended no update is taken from the queue and the
\* Directory, the Feedback Log and the sessions stay as they are, up to the
\* loop's report, which ends the confirmer's flow only; the update handled
\* next is always the oldest one waiting, and none that arrives later is
\* handled before it.
C18_OneUpdateAtATime ==
    /\ [][fanout.active =>
            /\ IsPrefix(update_queue, update_queue')
            /\ profiles' = profiles
            /\ feedback' = feedback
            /\ register_conv' = register_conv
            /\ feedback_conv' = feedback_conv
            /\ fanout'.active => (user_data' = user_data /\ broadcast_conv' = broadcast_conv)
            /\ ~fanout'.active =>
                  /\ reply'.msg = "Broadcast finished."
                  /\ \A u \in Users \ {fanout.by} :
                        /\ user_data'[u] = user_data[u]
                        /\ broadcast_conv'[u] = broadcast_conv[u]]_vars
    /\ [][\/ IsPrefix(update_queue, update_queue')
          \/ update_queue' = Tail(update_queue)]_vars
    /\ [][(update_queue # << >> /\ update_queue' = update_queue) => fanout.active]_vars

\* A loop suspended after its first delivery with two updates waiting, the
\* first of a user with no profile yet.
C18_Witness ==
    /\ fanout.active
    /\ fanout.i = 2
    /\ Len(sends) = 1
    /\ update_queue = << Update(2, "command", "profile"), Update(1, "command", "broadcast") >>
    /\ ~HasProfile(profiles, 2)

\* ------------------------------------------------------------ feedback log claims

\* C19: the Feedback Log is append-only: every step leaves the log of the
\* state before as a prefix of the log after it, so no entry is removed,
\* reordered or has its author or text changed; and a step that grows the log
\* is an affirmative confirmation by a user whose feedback flow awaited it,
\* adding one entry with that user's id and staged text.
C19_FeedbackLogAppendOnly ==
    [][/\ IsPrefix(feedback, feedback')
       /\ feedback' # feedback =>
            /\ reply'.msg = "Feedback sent. Thank you."
            /\ reply'.to \in Users
            /\ feedback_conv[reply'.to] = FEEDBACK_CONFIRM
            /\ user_data[reply'.to].pending_feedback # None
            /\ feedback' = Append(feedback,
                    [user_id |-> reply'.to,
                     text |-> user_data[reply'.to].pending_feedback[1]])
      ]_vars

\* A log of two entries by different users, shown to an administrator after
\* both were confirmed.
C19_Witness ==
    /\ Len(feedback) = 2
    /\ feedback[1].user_id # feedback[2].user_id
    /\ reply.msg = "feedback entries"
    /\ reply.entries = feedback

\* ------------------------------------------------------------ guidance reply

GuidanceData == {"util_echo", "util_back"}

\* The feedback flow and the echo entry of the utility menu, with free text
\* sent at every point.
NextGuidance ==
    \E u \in Users :
        \/ FeedbackUpdate(u)
        \/ feedback_cancel(u)
        \/ \E text \in FeedbackTexts : feedback_text(u, text)
        \/ \E text \in FeedbackTexts : utility_text_handler(u, text)
        \/ \E data \in GuidanceData : utility_menu_handler(u, data, 0)

SpecGuidance == InitSession /\ [][NextGuidance]_vars

\* User u has no flow waiting for a text and no echo flag.
NoTextExpected(u) ==
    /\ register_conv[u] \notin {REGISTER_NAME, REGISTER_AGE}
    /\ feedback_conv[u] # FEEDBACK_TEXT
    /\ broadcast_conv[u] # BROADCAST_TEXT
    /\ user_data[u].utility_mode # Some("echo")

\* C20: a free text of a user with no flow awaiting text and no echo flag is
\* dispatched to the utility text handler, which sends that user the one
\* guidance reply and changes nothing: flow states, staged texts, echo flag,
\* Directory and Feedback Log stay as they were.
C20_GuidanceReply ==
    /\ [](\A u \in Users : \A t \in FeedbackTexts :
            NoTextExpected(u) => Route(u, "text", t) = "utility_text_handler")
    /\ [][\A u \in Users :
            NoTextExpected(u) =>
                \A t \in FeedbackTexts :
                    utility_text_handler(u, t)
                    => /\ reply' = Reply(u, "I do not understand. Use /help or /start.")
                       /\ sends' = << >>
                       /\ UNCHANGED << profiles, feedback, register_conv, feedback_conv,
                                       broadcast_conv, user_data >>
         ]_vars

\* The guidance reply sent to a user whose feedback flow awaits the
\* confirmation, the staged text staying, while the other user's echo flag is
\* set.
C20_Witness ==
    \E u \in Users :
        /\ reply = Reply(u, "I do not understand. Use /help or /start.")
        /\ feedback_conv[u] = FEEDBACK_CONFIRM
        /\ user_data[u].pending_feedback # None
        /\ \E v \in Users \ {u} : user_data[v].utility_mode = Some("echo")

\* ------------------------------------------------------------ profile fields

\* Display names the platform reports with /start: none, and two different ones.
StartNames == { << >>, << "Z" >>, << "Y" >> }

\* Texts sent at the age step of these runs: out of range, and a valid age.
ProfileAgeTexts == { << "0" >>, << " ", "1" >> }

MenuData == {"menu_profile"}

\* /start, /profile, the main menu and the registration flow, for every user
\* in any order.
NextProfile ==
    \E u \in Users :
        \/ \E full_name \in StartNames : start(u, full_name)
        \/ profile_command(u)
        \/ \E data \in MenuData : button_main_menu(u, data)
        \/ RegisterUpdate(u)
        \/ \E text \in NonBlankNameTexts : register_name(u, text)
        \/ \E text \in ProfileAgeTexts : register_age(u, text)

SpecProfile == InitReg /\ [][NextProfile]_vars

\* The name and the age of u in Directory P, None for a user with no profile.
NameOf(P, u) == IF HasProfile(P, u) THEN ProfileOf(P, u).name ELSE None
AgeOf(P, u) == IF HasProfile(P, u) THEN ProfileOf(P, u).age ELSE None

\* C21: /start stores the display name exactly when the profile has no name
\* and the display name is not empty; a name once stored is changed by no
\* step but a name accepted at the registration name step (no /start,
\* /profile or menu action changes it); a profile is never removed; and an
\* age is changed only by a valid input at the registration age step.
C21_StartFillsUnsetNameOnly ==
    [][\A u \in Users :
        /\ HasProfile(profiles, u) => HasProfile(profiles', u)
        /\ reply'.to = u =>
              \A full_name \in StartNames :
                  start(u, full_name)
                  => NameOf(profiles', u) =
                        IF NameOf(profiles, u) = None /\ full_name # << >>
                        THEN Some(full_name) ELSE NameOf(profiles, u)
        /\ (NameOf(profiles, u) # None /\ NameOf(profiles', u) # NameOf(profiles, u))
              => /\ register_conv[u] = REGISTER_NAME
                 /\ reply' = Reply(u, "Now send your age as a number.")
                 /\ NameOf(profiles', u) = Some(Strip(name_input'[u]))
        /\ AgeOf(profiles', u) # AgeOf(profiles, u)
              => /\ register_conv[u] = REGISTER_AGE
                 /\ reply'.to = u
                 /\ reply'.msg = "Registration completed:"
                 /\ AgeOf(profiles', u) # None
                 /\ AgeOf(profiles', u)[1] \in 1..MaxAge
      ]_vars

\* /start answered for a user whose name and age come from a registration,
\* while the other user's name was filled in by /start.
C21_Witness ==
    \E u \in Users :
        /\ reply = Reply(u, "Welcome to the utility bot.")
        /\ NameOf(profiles, u) = Some(<< "A" >>)
        /\ AgeOf(profiles, u) = Some(1)
        /\ \E v \in Users \ {u} : NameOf(profiles, v) = Some(<< "Y" >>)

====
